---- MODULE Spec2Model ----
(***************************************************************************)
(* Verification model of flow-platform-node-core: the node execution       *)
(* contract of the built-in nodes (mongodb-operations, postgresql-query,   *)
(* data-filter, field-mapper), the CompatibilityValidator, the             *)
(* NodeRegistry and the RabbitMQClient.                                    *)
(*                                                                         *)
(* JavaScript values are tagged records: Null is null/undefined, a number  *)
(* 0 is the falsy number (also used for an absent optional number, which   *)
(* the code cannot tell apart behind `||`).                                *)
(***************************************************************************)
EXTENDS Integers, Sequences, FiniteSets, TLC

VARIABLES
    nodeType,   \* the `type` of the node instance under execution
    config,     \* BaseNode.config, captured by the constructor
    client,     \* MongoDBOperationsNode.client (0 is null)
    clients,    \* every client object created so far, by identity
    call,       \* the execute() invocations: position, locals, result
    cvSource,   \* CompatibilityValidator: the source argument
    cvTarget,   \* CompatibilityValidator: the target argument
    cvResult,   \* CompatibilityValidator: what the last call returned
    nodes,      \* NodeRegistry.nodes, a Map in insertion order
    regResult,  \* NodeRegistry: what the last operation returned or threw
    mq          \* a RabbitMQClient: its fields, its pending work, the broker

execVars == <<nodeType, config, client, clients, call>>
cvVars == <<cvSource, cvTarget, cvResult>>
regVars == <<nodes, regResult>>
vars == <<nodeType, config, client, clients, call, cvSource, cvTarget,
          cvResult, nodes, regResult, mq>>

\* ------------------------------------------------------------------ bounds
MaxCalls == 2      \* execute() invocations on the node instance
MaxRows == 1       \* rows or documents a database operation returns
MaxLen == 2        \* items of input.data and of input.source
MaxVal == 2        \* field values are the numbers 0 .. MaxVal
MaxConds == 2      \* entries of input.conditions
MaxMappings == 1   \* entries of input.mapping
MaxConns == 2      \* connections the broker accepts from the RabbitMQClient
MaxReconnect == 2  \* the largest config.maxReconnectAttempts
MaxMessages == 1   \* messages delivered to the consumer

\* ------------------------------------------------------- program constants
DefaultTimeout == 30000
DefaultRetries == 3

\* --------------------------------------------------------------- JS values
Null == [k |-> "null"]

NoClient == 0

Calls == 1 .. MaxCalls

NodeTypes == {"data-filter", "field-mapper", "postgresql-query",
              "mongodb-operations"}

\* ------------------------------------------------------------ result values
\* Error objects, by message
TypeError == [msg |-> "TypeError"]
DownstreamError == [msg |-> "downstream"]
ConnectionError == [msg |-> "connection"]

NoResult == [k |-> "none"]

\* the promise returned by execute was rejected with e
Rejected(e) == [k |-> "rejected", error |-> e]

\* a failure envelope that carries a data field
Failure_withData(e) ==
    [k |-> "envelope", success |-> FALSE, error |-> e, data |-> Null]

\* { success: false, error }
Failure(e) == [k |-> "envelope", success |-> FALSE, error |-> e]

\* { success: true, data, metrics: { recordsProcessed } }
Success(d, n) ==
    [k |-> "envelope", success |-> TRUE, data |-> d, recordsProcessed |-> n]

\* ------------------------------------------------------------ client objects
\* a MongoClient or pg Client: the call that constructed it, whether its
\* connect() resolved, and how often close()/end() was invoked on it
NewClient(c) == [owner |-> c, connected |-> FALSE, closeCalls |-> 0]

IdleCall ==
    [pc |-> "idle", input |-> Null, timeout |-> 0, retries |-> 0,
     attempt |-> 0, delay |-> 0, conn |-> 0, opCalls |-> 0,
     opClient |-> 0, closing |-> 0, timedOut |-> FALSE, result |-> NoResult,
     valid |-> Null]

\* the call returns: its result and what it did (the options it resolved,
\* the attempts it made, the client it worked on) stay on record
Return(rec) == [rec EXCEPT !.pc = "done", !.conn = 0, !.closing = 0]

\* the caller holds on to what a call returned until it makes its next call
Forget(calls) ==
    [d \in Calls |->
        IF calls[d].pc = "done" THEN [IdleCall EXCEPT !.pc = "forgotten"]
        ELSE calls[d]]

InFlight == \E c \in Calls : call[c].pc \notin {"idle", "done", "forgotten"}

\* calls are numbered in the order they start
MayStart(c) ==
    /\ call[c].pc = "idle"
    /\ \A d \in Calls : d < c => call[d].pc # "idle"

\* --------------------------------------------------- MongoDBOperationsNode
OptTimeouts == {0, 5000}
OptRetries == {0, 2}
CfgTimeouts == {0, 10000}

\* input.operation: two that answer with an array of documents and one that
\* answers with a count
MongoOperations == {"find", "aggregate", "deleteMany"}

\* input, by the fields execute reads on entry; input.operation is drawn
\* where executeOperation reads it
MongoInputs ==
    {Null} \cup
    {[options |-> o] :
        o \in {Null} \cup [timeout : OptTimeouts, retries : OptRetries]}

\* null, {} and a config that sets both defaults
MongoConfigs ==
    {Null, [defaultTimeout |-> 0, defaultRetries |-> 0],
     [defaultTimeout |-> 10000, defaultRetries |-> 1]}

\* input.options?.timeout, input.options?.retries
OptionOf(input, f) == IF input.options = Null THEN 0 ELSE input.options[f]

\* the two declarations ahead of the try block throw a TypeError when input
\* is null, or when this.config is null and is reached by the || chain
PrologueThrows(input, cfg) ==
    \/ input = Null
    \/ /\ cfg = Null
       /\ \/ OptionOf(input, "timeout") = 0
          \/ OptionOf(input, "retries") = 0

\* a resolution that skips this.config.defaultTimeout
ResolveTimeout_skipsConfig(input, cfg) ==
    IF OptionOf(input, "timeout") # 0 THEN OptionOf(input, "timeout")
    ELSE DefaultTimeout

ResolveTimeout(input, cfg) ==
    IF OptionOf(input, "timeout") # 0 THEN OptionOf(input, "timeout")
    ELSE IF cfg.defaultTimeout # 0 THEN cfg.defaultTimeout
    ELSE DefaultTimeout

ResolveRetries(input, cfg) ==
    IF OptionOf(input, "retries") # 0 THEN OptionOf(input, "retries")
    ELSE IF cfg.defaultRetries # 0 THEN cfg.defaultRetries
    ELSE DefaultRetries

\* the Error createTimeoutPromise rejects with
createTimeoutPromise(timeout) ==
    [msg |-> "Operation timed out after <timeout>ms", timeout |-> timeout]

\* the Error connectWithRetry throws after the last attempt
ConnectFailedError(retries) ==
    [msg |-> "Failed to connect after <retries> attempts", retries |-> retries]

\* an execute whose finally block does not close
disconnect_noClose(st) ==
    [rec |-> Return(st.rec), clients |-> st.clients, client |-> st.client]

\* disconnect(), up to its await: close() is invoked on this.client when
\* there is one.  st is [rec, clients, client]: the call's record, the client
\* objects and this.client as the finally block finds them.
disconnect(st) ==
    IF st.client # NoClient
    THEN [rec |-> [st.rec EXCEPT !.pc = "closing", !.closing = st.client],
          clients |-> [st.clients EXCEPT ![st.client].closeCalls = @ + 1],
          client |-> st.client]
    ELSE [rec |-> Return(st.rec),
          clients |-> st.clients,
          client |-> st.client]

\* catch (error) { return { success: false, error } } finally { disconnect }
MongoCatch(st, e) ==
    disconnect([st EXCEPT !.rec.result = Failure(e)])

\* Math.pow(2, attempt - 1) * 1000
BackoffDelay(attempt) == 2 ^ (attempt - 1) * 1000

\* a retry loop that gives up one attempt early
AttemptFailed_givesUpEarly(st) ==
    IF st.rec.attempt + 1 < st.rec.retries
    THEN [st EXCEPT !.rec.pc = "backoff",
                    !.rec.delay = BackoffDelay(st.rec.attempt)]
    ELSE MongoCatch(st, ConnectFailedError(st.rec.retries))

\* the catch block of one attempt of connectWithRetry: back off when another
\* attempt follows, else throw into execute's catch
AttemptFailed(st) ==
    IF st.rec.attempt < st.rec.retries
    THEN [st EXCEPT !.rec.pc = "backoff",
                    !.rec.delay = BackoffDelay(st.rec.attempt)]
    ELSE MongoCatch(st, ConnectFailedError(st.rec.retries))

\* whether new MongoClient(...) may throw and may succeed: reading
\* this.config.connectionPool for its options throws when this.config is null;
\* otherwise the constructor throws on a connection string it cannot parse
MayThrowInConstructor(cfg) == IF cfg = Null THEN {TRUE} ELSE BOOLEAN

\* one iteration of the loop of connectWithRetry, up to its await: the
\* MongoClient constructor either throws or the new client replaces
\* this.client and connect() is called on it
NewAttempt(c, st, ctorThrows) ==
    LET rec == [st.rec EXCEPT !.attempt = @ + 1, !.delay = 0]
        id == Len(st.clients) + 1
    IN IF ctorThrows
       THEN AttemptFailed([st EXCEPT !.rec = rec])
       ELSE [rec |-> [rec EXCEPT !.pc = "connecting", !.conn = id],
             clients |-> Append(st.clients, NewClient(c)),
             client |-> id]

Here(c) == [rec |-> call[c], clients |-> clients, client |-> client]

Become(c, st) ==
    /\ call' = [call EXCEPT ![c] = st.rec]
    /\ clients' = st.clients
    /\ client' = st.client

\* the state left by the first step of an execute call
Started(c, st) ==
    /\ call' = [Forget(call) EXCEPT ![c] = st.rec]
    /\ clients' = st.clients
    /\ client' = st.client

\* execute(input), from entry to the first await
MongoExecute(c) ==
    /\ nodeType = "mongodb-operations"
    /\ MayStart(c)
    /\ \E input \in MongoInputs, ctorThrows \in MayThrowInConstructor(config) :
        IF PrologueThrows(input, config)
        THEN /\ call' = [Forget(call) EXCEPT
                            ![c].pc = "done", ![c].input = input,
                            ![c].result = Rejected(TypeError)]
             /\ UNCHANGED <<clients, client>>
        ELSE Started(c, NewAttempt(c,
                [Here(c) EXCEPT
                    !.rec.input = input,
                    !.rec.timeout = ResolveTimeout(input, config),
                    !.rec.retries = ResolveRetries(input, config)],
                ctorThrows))
    /\ UNCHANGED <<nodeType, config, cvVars, regVars, mq>>

\* await this.client.connect() resolves; execute reads this.client again for
\* db()/collection(), issues the operation on it and awaits the race
MongoConnectResolved(c) ==
    /\ nodeType = "mongodb-operations"
    /\ call[c].pc = "connecting"
    /\ LET cls == [clients EXCEPT ![call[c].conn].connected = TRUE]
           st == [Here(c) EXCEPT !.clients = cls]
       IN IF client = NoClient
          THEN Become(c, MongoCatch(st, TypeError))
          ELSE Become(c, [st EXCEPT !.rec.pc = "op", !.rec.opClient = client,
                                    !.rec.opCalls = @ + 1])
    /\ UNCHANGED <<nodeType, config, cvVars, regVars, mq>>

\* await this.client.connect() rejects
MongoConnectRejected(c) ==
    /\ nodeType = "mongodb-operations"
    /\ call[c].pc = "connecting"
    /\ Become(c, AttemptFailed(Here(c)))
    /\ UNCHANGED <<nodeType, config, cvVars, regVars, mq>>

\* the backoff timer fires; the loop runs its next iteration
MongoBackoffElapsed(c) ==
    /\ nodeType = "mongodb-operations"
    /\ call[c].pc = "backoff"
    /\ \E ctorThrows \in MayThrowInConstructor(config) :
        Become(c, NewAttempt(c, Here(c), ctorThrows))
    /\ UNCHANGED <<nodeType, config, cvVars, regVars, mq>>
\* an array of n rows or documents, as a driver returns it
Rows(n) == [k |-> "array", items |-> [i \in 1 .. n |-> [k |-> "row", id |-> i]]]

\* executeOperation, once the driver has answered with n documents found or
\* deleted
executeOperation(operation, n) ==
    CASE operation \in {"find", "aggregate"} ->
            [result |-> Rows(n), matchedCount |-> n]
      [] operation = "deleteMany" ->
            [result |-> [deletedCount |-> n], deletedCount |-> n]

\* getRecordsProcessed(result, operation); a count of 0 is as falsy as an
\* absent one
getRecordsProcessed(result, operation) ==
    CASE operation \in {"find", "aggregate"} ->
            IF result.result.k = "array" THEN Len(result.result.items) ELSE 0
      [] operation = "deleteMany" -> result.deletedCount
      [] OTHER -> 0

\* the operation settles first and resolves: the driver answers with n
\* documents
MongoOperationResolved(c) ==
    /\ nodeType = "mongodb-operations"
    /\ call[c].pc = "op"
    /\ \E operation \in MongoOperations, n \in 0 .. MaxRows :
        LET result == executeOperation(operation, n)
        IN Become(c, disconnect(
            [Here(c) EXCEPT !.rec.result =
                Success(result @@ [operationType |-> operation],
                        getRecordsProcessed(result, operation))]))
    /\ UNCHANGED <<nodeType, config, cvVars, regVars, mq>>

\* an execute that issues a refused operation once more
MongoOperationRejected_reissues(c) ==
    /\ nodeType = "mongodb-operations"
    /\ call[c].pc = "op"
    /\ IF call[c].opCalls < 2
       THEN Become(c, [Here(c) EXCEPT !.rec.opCalls = @ + 1])
       ELSE Become(c, MongoCatch(Here(c), DownstreamError))
    /\ UNCHANGED <<nodeType, config, cvVars, regVars, mq>>

\* the operation settles first and rejects: the downstream system refused it
MongoOperationRejected(c) ==
    /\ nodeType = "mongodb-operations"
    /\ call[c].pc = "op"
    /\ Become(c, MongoCatch(Here(c), DownstreamError))
    /\ UNCHANGED <<nodeType, config, cvVars, regVars, mq>>

\* the timer of createTimeoutPromise fires first
MongoTimeoutFired(c) ==
    /\ nodeType = "mongodb-operations"
    /\ call[c].pc = "op"
    /\ Become(c, MongoCatch([Here(c) EXCEPT !.rec.timedOut = TRUE],
                            createTimeoutPromise(call[c].timeout)))
    /\ UNCHANGED <<nodeType, config, cvVars, regVars, mq>>

\* await this.client.close() settles (a rejection is only logged); the
\* finally block of disconnect nulls this.client and execute returns
MongoCloseSettled(c) ==
    /\ nodeType = "mongodb-operations"
    /\ call[c].pc = "closing"
    /\ call' = [call EXCEPT ![c] = Return(call[c])]
    /\ client' = NoClient
    /\ UNCHANGED <<clients, nodeType, config, cvVars, regVars, mq>>

\* ----------------------------------------------------- PostgreSQLQueryNode
PgInputs == {Null, [connectionString |-> "postgresql://", query |-> "SQL"]}

PgConfigs == {Null} \cup [timeout : CfgTimeouts]

\* this.config?.timeout || 30000
PgTimeout(cfg) ==
    IF cfg = Null THEN DefaultTimeout
    ELSE IF cfg.timeout # 0 THEN cfg.timeout
    ELSE DefaultTimeout

\* { success: false, error, metrics: { recordsProcessed: 0 } }
PgFailure(e) ==
    [k |-> "envelope", success |-> FALSE, error |-> e, recordsProcessed |-> 0]

\* finally { if (client) await client.end() }, up to the await; id is the
\* local variable client (0 when the constructor was never reached)
PgFinally(st, id) ==
    IF id # NoClient
    THEN [rec |-> [st.rec EXCEPT !.pc = "closing", !.closing = id],
          clients |-> [st.clients EXCEPT ![id].closeCalls = @ + 1],
          client |-> st.client]
    ELSE [st EXCEPT !.rec = Return(st.rec)]

\* execute(input), from entry to await client.connect()
PgExecute(c) ==
    /\ nodeType = "postgresql-query"
    /\ MayStart(c)
    /\ \E input \in PgInputs :
        LET st == [Here(c) EXCEPT !.rec.input = input,
                                  !.rec.timeout = PgTimeout(config)]
            id == Len(clients) + 1
        IN IF input = Null
           THEN Started(c, PgFinally([st EXCEPT !.rec.result =
                                         PgFailure(TypeError)], NoClient))
           ELSE Started(c, [st EXCEPT
                               !.rec.pc = "connecting", !.rec.conn = id,
                               !.clients = Append(clients, NewClient(c))])
    /\ UNCHANGED <<nodeType, config, cvVars, regVars, mq>>

\* connect() resolves and the query is sent on the local client
PgConnectResolved(c) ==
    /\ nodeType = "postgresql-query"
    /\ call[c].pc = "connecting"
    /\ Become(c, [Here(c) EXCEPT !.rec.pc = "op",
                                 !.rec.opCalls = @ + 1,
                                 !.rec.opClient = call[c].conn,
                                 !.clients[call[c].conn].connected = TRUE])
    /\ UNCHANGED <<nodeType, config, cvVars, regVars, mq>>

\* connect() rejects (refused, or connectionTimeoutMillis ran out)
PgConnectRejected(c) ==
    /\ nodeType = "postgresql-query"
    /\ call[c].pc = "connecting"
    /\ Become(c, PgFinally([Here(c) EXCEPT !.rec.result =
                               PgFailure(ConnectionError)], call[c].conn))
    /\ UNCHANGED <<nodeType, config, cvVars, regVars, mq>>

\* what client.query resolves with: a statement that returns rows (SELECT,
\* or RETURNING) has as many rows as its rowCount; one that returns none
\* (UPDATE, DELETE, INSERT) has no rows and the number of rows it changed as
\* rowCount
QueryResults ==
    {[rows |-> Rows(n), rowCount |-> n] : n \in 0 .. MaxRows} \cup
    {[rows |-> Rows(0), rowCount |-> n] : n \in 0 .. MaxRows}

\* client.query resolves
PgQueryResolved(c) ==
    /\ nodeType = "postgresql-query"
    /\ call[c].pc = "op"
    /\ \E queryResult \in QueryResults :
        Become(c, PgFinally([Here(c) EXCEPT !.rec.result =
                                Success([result |-> queryResult.rows,
                                         rowCount |-> queryResult.rowCount],
                                        queryResult.rowCount)],
                            call[c].conn))
    /\ UNCHANGED <<nodeType, config, cvVars, regVars, mq>>

\* client.query rejects
PgQueryRejected(c) ==
    /\ nodeType = "postgresql-query"
    /\ call[c].pc = "op"
    /\ Become(c, PgFinally([Here(c) EXCEPT !.rec.result =
                               PgFailure(DownstreamError)], call[c].conn))
    /\ UNCHANGED <<nodeType, config, cvVars, regVars, mq>>

\* the configured timeout passes while the query is pending: execute set no
\* timer on the query, so nothing runs; the call only gets older
PgTimeoutElapsed(c) ==
    /\ nodeType = "postgresql-query"
    /\ call[c].pc = "op"
    /\ ~call[c].timedOut
    /\ call' = [call EXCEPT ![c].timedOut = TRUE]
    /\ UNCHANGED <<clients, client, nodeType, config, cvVars, regVars, mq>>

\* await client.end() settles (a rejection is only logged); execute returns
PgEndSettled(c) ==
    /\ nodeType = "postgresql-query"
    /\ call[c].pc = "closing"
    /\ call' = [call EXCEPT ![c] = Return(call[c])]
    /\ UNCHANGED <<clients, client, nodeType, config, cvVars, regVars, mq>>
\* ------------------------------------------------------------ DataFilterNode
Undefined == [k |-> "undefined"]

\* a number as a JS value
Num(n) == [k |-> "number", n |-> n]

\* an array as a JS value
Arr(items) == [k |-> "array", items |-> items]

\* BaseNode.validate
BaseNodeValidate(input) == input # Null /\ input # Undefined

IsArray(v) == v.k = "array"

\* an item is null or an object with the one field age
Objects == {[k |-> "object", age |-> Num(v)] : v \in 0 .. MaxVal}

Items == {Null} \cup Objects

SeqsUpTo(S, n) == UNION {[1 .. m -> S] : m \in 0 .. n}

ArraysUpTo(S, n) == {Arr(q) : q \in SeqsUpTo(S, n)}

Operators ==
    {"equals", "not_equals", "greater_than", "less_than", "contains", "other"}

\* a condition is null or compares a field an item has (age) or lacks (name)
\* with the number 1, which lies amid the field values
FilterConditions ==
    {Null} \cup [field : {"age", "name"}, operator : Operators,
                 value : {Num(1)}]

DataFilterInputs ==
    {Null} \cup
    [data : {Null} \cup ArraysUpTo(Items, MaxLen),
     conditions : {Null} \cup ArraysUpTo(FilterConditions, MaxConds)]

\* item[field] on an object
GetField(item, f) == IF f \in DOMAIN item THEN item[f] ELSE Undefined

\* the switch on condition.operator; a relational comparison with undefined
\* is false, String(undefined) holds no digit, and the numbers of the model
\* are single digits, so one's decimal string includes another's iff equal
OperatorHolds(fieldValue, operator, value) ==
    CASE operator = "equals" -> fieldValue = value
      [] operator = "not_equals" -> fieldValue # value
      [] operator = "greater_than" ->
            fieldValue # Undefined /\ fieldValue.n > value.n
      [] operator = "less_than" ->
            fieldValue # Undefined /\ fieldValue.n < value.n
      [] operator = "contains" ->
            fieldValue # Undefined /\ fieldValue.n = value.n
      [] OTHER -> FALSE

\* an every that stops after the first condition
EveryCondition_firstOnly(item, conditions, i) ==
    IF Len(conditions) = 0 THEN "true"
    ELSE IF conditions[1] = Null \/ item = Null THEN "throw"
    ELSE IF OperatorHolds(GetField(item, conditions[1].field),
                          conditions[1].operator, conditions[1].value)
         THEN "true"
         ELSE "false"

\* input.conditions.every(...) from index i on an item: "true", "false", or
\* "throw" when a property is read from null
RECURSIVE EveryCondition(_, _, _)
EveryCondition(item, conditions, i) ==
    IF i > Len(conditions) THEN "true"
    ELSE IF conditions[i] = Null \/ item = Null THEN "throw"
    ELSE IF OperatorHolds(GetField(item, conditions[i].field),
                          conditions[i].operator, conditions[i].value)
         THEN EveryCondition(item, conditions, i + 1)
         ELSE "false"

\* input.data.filter(...) from index i, with the items kept so far
RECURSIVE FilterFrom(_, _, _, _)
FilterFrom(data, conditions, i, kept) ==
    IF i > Len(data) THEN [threw |-> FALSE, filtered |-> kept]
    ELSE IF conditions = Null THEN [threw |-> TRUE, filtered |-> kept]
    ELSE LET r == EveryCondition(data[i], conditions.items, 1)
         IN IF r = "throw" THEN [threw |-> TRUE, filtered |-> kept]
            ELSE FilterFrom(data, conditions, i + 1,
                            IF r = "true" THEN Append(kept, data[i]) ELSE kept)

\* DataFilterNode.execute: the whole body is inside the try block
DataFilterExecute(input) ==
    IF input = Null \/ input.data = Null THEN Failure(TypeError)
    ELSE LET r == FilterFrom(input.data.items, input.conditions, 1, <<>>)
         IN IF r.threw THEN Failure(TypeError)
            ELSE Success([filtered |-> Arr(r.filtered),
                          filtered_count |-> Len(r.filtered)],
                         Len(r.filtered))

FilterExecute(c) ==
    /\ nodeType = "data-filter"
    /\ MayStart(c)
    /\ \E input \in DataFilterInputs :
        call' = [Forget(call) EXCEPT ![c].pc = "done",
                                     ![c].result = DataFilterExecute(input)]
    /\ UNCHANGED <<clients, client, nodeType, config, cvVars, regVars, mq>>
\* ----------------------------------------------------------- FieldMapperNode
\* parameters.functionBody: absent (the empty string is as falsy), a body
\* that returns 1, a body that throws when called, a body that does not
\* compile
FunctionBodies == {"", "return 1", "throw new Error()", "}"}

MappingParameters ==
    {Null} \cup [functionBody : FunctionBodies,
                 constantValue : {Num(0)}]

FieldMappings ==
    {Null} \cup [sourceField : {"age", "name"}, targetField : {"out"},
                 transformation : {"rename", "function", "constant", "other"},
                 parameters : MappingParameters]

FieldMapperInputs ==
    {Null} \cup
    [source : Items \cup ArraysUpTo(Items, MaxLen),
     mapping : {Null} \cup ArraysUpTo(FieldMappings, MaxMappings)]

\* the object literal {} and result[targetField] = value; an object under
\* construction is the set of its <<field, value>> pairs
EmptyObject == [k |-> "result", fields |-> {}]

Put(obj, f, value) ==
    [obj EXCEPT !.fields = {p \in @ : p[1] # f} \cup {<<f, value>>}]

\* a catch that leaves the target field unset
CallFunctionBody_dropsValue(functionBody, sourceValue) ==
    IF functionBody = "return 1" THEN Num(1) ELSE Undefined

\* new Function('value', functionBody)(sourceValue), inside its own try:
\* a body that fails to compile or throws makes the catch pass sourceValue on
CallFunctionBody(functionBody, sourceValue) ==
    IF functionBody = "return 1" THEN Num(1) ELSE sourceValue

\* the switch on mapping.transformation, for a non-null mapping and item
ApplyMapping(result, item, mapping) ==
    LET sourceValue == GetField(item, mapping.sourceField)
    IN CASE mapping.transformation = "rename" ->
                Put(result, mapping.targetField, sourceValue)
         [] mapping.transformation = "function" ->
                IF mapping.parameters # Null
                   /\ mapping.parameters.functionBody # ""
                THEN Put(result, mapping.targetField,
                         CallFunctionBody(mapping.parameters.functionBody,
                                          sourceValue))
                ELSE Put(result, mapping.targetField, sourceValue)
         [] mapping.transformation = "constant" ->
                Put(result, mapping.targetField,
                    IF mapping.parameters = Null THEN Undefined
                    ELSE mapping.parameters.constantValue)
         [] OTHER -> result

\* input.mapping.forEach(...) on one item, from index i
RECURSIVE ForEachMapping(_, _, _, _)
ForEachMapping(item, mapping, i, result) ==
    IF i > Len(mapping) THEN [threw |-> FALSE, value |-> result]
    ELSE IF mapping[i] = Null \/ item = Null
         THEN [threw |-> TRUE, value |-> result]
    ELSE ForEachMapping(item, mapping, i + 1,
                        ApplyMapping(result, item, mapping[i]))

\* sourceData.map(...) from index i, with the results so far
RECURSIVE MapFrom(_, _, _, _)
MapFrom(sourceData, mapping, i, mapped) ==
    IF i > Len(sourceData) THEN [threw |-> FALSE, mapped |-> mapped]
    ELSE IF mapping = Null THEN [threw |-> TRUE, mapped |-> mapped]
    ELSE LET r == ForEachMapping(sourceData[i], mapping.items, 1, EmptyObject)
         IN IF r.threw THEN [threw |-> TRUE, mapped |-> mapped]
            ELSE MapFrom(sourceData, mapping, i + 1, Append(mapped, r.value))

\* FieldMapperNode.execute: the whole body is inside the try block
FieldMapperExecute(input) ==
    IF input = Null THEN Failure(TypeError)
    ELSE LET isArray == IsArray(input.source)
             sourceData == IF isArray THEN input.source.items
                           ELSE <<input.source>>
             r == MapFrom(sourceData, input.mapping, 1, <<>>)
         IN IF r.threw THEN Failure(TypeError)
            ELSE Success([mapped |-> IF isArray THEN Arr(r.mapped)
                                     ELSE r.mapped[1]],
                         Len(sourceData))

\* DataFilterNode.validate
DataFilterValidate(input) ==
    /\ BaseNodeValidate(input)
    /\ input.data # Null /\ IsArray(input.data)
    /\ input.conditions # Null /\ IsArray(input.conditions)

\* validate(input) for the input the caller holds ready in call[c].input,
\* before the execute call on it
FilterValidateGiven(c) ==
    /\ nodeType = "data-filter"
    /\ MayStart(c)
    /\ call[c].valid = Null
    /\ call' = [call EXCEPT
                  ![c].valid = [k |-> "boolean",
                                value |-> DataFilterValidate(call[c].input)]]
    /\ UNCHANGED <<clients, client, nodeType, config, cvVars, regVars, mq>>

\* execute(input) for the input the caller holds ready in call[c].input, as
\* the only call on the instance
FilterExecuteGiven(c) ==
    /\ nodeType = "data-filter"
    /\ MayStart(c)
    /\ \A d \in Calls : call[d].pc = "idle"
    /\ call' = [call EXCEPT ![c].pc = "done",
                            ![c].result = DataFilterExecute(call[c].input)]
    /\ UNCHANGED <<clients, client, nodeType, config, cvVars, regVars, mq>>

\* FieldMapperNode.validate; typeof null is 'object'
FieldMapperValidate(input) ==
    /\ BaseNodeValidate(input)
    /\ (input.source = Null \/ input.source.k \in {"array", "object"})
    /\ input.mapping # Null /\ IsArray(input.mapping)

\* validate(input) for the input the caller holds ready in call[c].input,
\* before the execute call on it
MapperValidateGiven(c) ==
    /\ nodeType = "field-mapper"
    /\ MayStart(c)
    /\ call[c].valid = Null
    /\ call' = [call EXCEPT
                  ![c].valid = [k |-> "boolean",
                                value |-> FieldMapperValidate(call[c].input)]]
    /\ UNCHANGED <<clients, client, nodeType, config, cvVars, regVars, mq>>

\* execute(input) for the input the caller holds ready in call[c].input, as
\* the only call on the instance
MapperExecuteGiven(c) ==
    /\ nodeType = "field-mapper"
    /\ MayStart(c)
    /\ \A d \in Calls : call[d].pc = "idle"
    /\ call' = [call EXCEPT ![c].pc = "done",
                            ![c].result = FieldMapperExecute(call[c].input)]
    /\ UNCHANGED <<clients, client, nodeType, config, cvVars, regVars, mq>>

MapperExecute(c) ==
    /\ nodeType = "field-mapper"
    /\ MayStart(c)
    /\ \E input \in FieldMapperInputs :
        call' = [Forget(call) EXCEPT ![c].pc = "done",
                                     ![c].result = FieldMapperExecute(input)]
    /\ UNCHANGED <<clients, client, nodeType, config, cvVars, regVars, mq>>
\* ----------------------------------------------------- CompatibilityValidator
Str(x) == [k |-> "string", s |-> x]

\* a built-in function object, with its own name and length properties
Fn(name, length) == [k |-> "function", name |-> name, length |-> length]

ObjectPrototype == [k |-> "Object.prototype"]
FunctionPrototype == [k |-> "Function.prototype"]

\* the object literal `matrix` of check: its own keys and, per key, the own
\* keys of the row
Matrix ==
    [s \in NodeTypes |->
        CASE s = "postgresql-query" ->
                [t \in {"data-filter", "field-mapper", "mongodb-operations"} |->
                    IF t = "mongodb-operations" THEN "partial" ELSE "full"]
          [] s = "mongodb-operations" ->
                [t \in NodeTypes |->
                    IF t = "postgresql-query" THEN "partial" ELSE "full"]
          [] s = "data-filter" ->
                [t \in {"field-mapper", "mongodb-operations",
                        "postgresql-query"} |->
                    IF t = "postgresql-query" THEN "partial" ELSE "full"]
          [] s = "field-mapper" ->
                [t \in {"mongodb-operations", "postgresql-query",
                        "data-filter"} |->
                    IF t = "postgresql-query" THEN "partial" ELSE "full"]]

Declared(sourceType, targetType) ==
    sourceType \in DOMAIN Matrix /\ targetType \in DOMAIN Matrix[sourceType]

CompatibilityLevels == {Str("full"), Str("partial"), Str("conditional"),
                        Str("none")}

\* a property read that reaches Object.prototype (besides __proto__, whose
\* getter answers with the prototype of the receiver)
ObjectPrototypeGet(key) ==
    CASE key = "constructor" -> Fn("Object", 1)
      [] key = "toString" -> Fn("toString", 0)
      [] key = "valueOf" -> Fn("valueOf", 0)
      [] key = "hasOwnProperty" -> Fn("hasOwnProperty", 1)
      [] OTHER -> Undefined

\* a property read that reaches Function.prototype
FunctionPrototypeGet(key) ==
    CASE key = "constructor" -> Fn("Function", 1)
      [] key = "toString" -> Fn("toString", 0)
      [] key = "name" -> Str("")
      [] key = "length" -> Num(0)
      [] OTHER -> ObjectPrototypeGet(key)

\* obj[key] for the objects check can reach: the matrix literal, one of its
\* rows, a built-in function, Object.prototype
Get(obj, key) ==
    CASE obj.k = "matrix" ->
            IF key \in DOMAIN Matrix THEN [k |-> "row", source |-> key]
            ELSE IF key = "__proto__" THEN ObjectPrototype
            ELSE ObjectPrototypeGet(key)
      [] obj.k = "row" ->
            IF key \in DOMAIN Matrix[obj.source]
            THEN Str(Matrix[obj.source][key])
            ELSE IF key = "__proto__" THEN ObjectPrototype
            ELSE ObjectPrototypeGet(key)
      [] obj.k = "function" ->
            IF key = "name" THEN Str(obj.name)
            ELSE IF key = "length" THEN Num(obj.length)
            ELSE IF key = "prototype" /\ obj.name = "Object"
                 THEN ObjectPrototype
            ELSE IF key = "__proto__" THEN FunctionPrototype
            ELSE FunctionPrototypeGet(key)
      [] obj.k = "Object.prototype" ->
            IF key = "__proto__" THEN Null ELSE ObjectPrototypeGet(key)
      [] OTHER -> Undefined

\* ToBoolean
Truthy(v) == v \notin {Undefined, Null, Num(0), Str("")}

\* obj?.[key]
OptionalGet(obj, key) ==
    IF obj \in {Undefined, Null} THEN Undefined ELSE Get(obj, key)

\* CompatibilityValidator.check
check(sourceType, targetType) ==
    LET found == OptionalGet(Get([k |-> "matrix"], sourceType), targetType)
        level == IF Truthy(found) THEN found ELSE Str("none")
    IN [level |-> level, valid |-> level # Str("none")]

\* the type strings tried: the node types, two undeclared ones, and names of
\* properties every object inherits
TypeStrings ==
    NodeTypes \cup {"notification-node", "ai-ml-node", "toString",
                    "constructor", "__proto__", "name", "length"}

\* a pin's optional schema: absent, or an object whose type field is absent
\* or a type name
Schemas ==
    {Null} \cup
    {[k |-> "schema", type |-> t] :
        t \in {Undefined, Str("array"), Str("object"), Str("any")}}

Pins == [type : TypeStrings, pin : {"result"}, schema : Schemas]

Issue(severity, message) == [severity |-> severity, message |-> message]

\* the condition of the schema compatibility check
SchemaTypeMismatch(source, target) ==
    /\ source.schema # Null
    /\ target.schema # Null
    /\ source.schema.type # target.schema.type
    /\ source.schema.type # Str("any")
    /\ target.schema.type # Str("any")

\* a validator that reports the schema mismatch as an error
validateCompatibility_mismatchIsError(source, target) ==
    LET basicCheck == check(source.type, target.type)
        issues1 == IF ~basicCheck.valid
                   THEN <<Issue("error", "No compatibility rule found")>>
                   ELSE <<>>
        issues == IF SchemaTypeMismatch(source, target)
                  THEN Append(issues1, Issue("error", "Schema type mismatch"))
                  ELSE issues1
        IsError(i) == i.severity = "error"
    IN [compatible |-> basicCheck.valid /\ Len(SelectSeq(issues, IsError)) = 0,
        issues |-> issues]

\* CompatibilityValidator.validateCompatibility (the value its promise
\* resolves with)
validateCompatibility(source, target) ==
    LET basicCheck == check(source.type, target.type)
        issues1 == IF ~basicCheck.valid
                   THEN <<Issue("error", "No compatibility rule found")>>
                   ELSE <<>>
        issues == IF SchemaTypeMismatch(source, target)
                  THEN Append(issues1, Issue("warning", "Schema type mismatch"))
                  ELSE issues1
        IsError(i) == i.severity = "error"
    IN [compatible |-> basicCheck.valid /\ Len(SelectSeq(issues, IsError)) = 0,
        issues |-> issues]

NoCall == [op |-> "none"]

CvCheck ==
    /\ cvResult' = [op |-> "check", ret |-> check(cvSource.type, cvTarget.type)]
    /\ UNCHANGED <<cvSource, cvTarget, execVars, regVars, mq>>

CvValidateCompatibility ==
    /\ cvResult' = [op |-> "validateCompatibility",
                    ret |-> validateCompatibility(cvSource, cvTarget)]
    /\ UNCHANGED <<cvSource, cvTarget, execVars, regVars, mq>>
\* --------------------------------------------------------------- NodeRegistry
RegistryTypes == {"data-filter", "custom", "toString"}

\* the classes registered: two built-in classes, which define their own
\* static getMetadata; a class that extends BaseNode and defines none; and two
\* classes that implement INode without BaseNode and define none, one of
\* which has a constructor that reads a field of its config
NodeClasses == {"DataFilterNode", "FieldMapperNode", "TextProcessorNode",
                "PlainNode", "NeedsConfigNode"}

\* what the registry can observe of a class: its superclass, whether it
\* declares static getMetadata itself, and the fields of its instances
ClassDeclaration(nodeClass) ==
    CASE nodeClass = "DataFilterNode" ->
            [extendsBaseNode |-> TRUE, ownGetMetadata |-> TRUE,
             shortName |-> "DataFilter", type |-> "data-filter",
             version |-> "1.0.0", category |-> "transformation"]
      [] nodeClass = "FieldMapperNode" ->
            [extendsBaseNode |-> TRUE, ownGetMetadata |-> TRUE,
             shortName |-> "FieldMapper", type |-> "field-mapper",
             version |-> "1.0.0", category |-> "transformation"]
      [] nodeClass = "TextProcessorNode" ->
            [extendsBaseNode |-> TRUE, ownGetMetadata |-> FALSE,
             shortName |-> "TextProcessor", type |-> "text-processor",
             version |-> "2.0.0", category |-> "text"]
      [] nodeClass = "PlainNode" ->
            [extendsBaseNode |-> FALSE, ownGetMetadata |-> FALSE,
             shortName |-> "Plain", type |-> "plain",
             version |-> "0.1.0", category |-> "custom"]
      [] nodeClass = "NeedsConfigNode" ->
            [extendsBaseNode |-> FALSE, ownGetMetadata |-> FALSE,
             shortName |-> "NeedsConfig", type |-> "needs-config",
             version |-> "1.0.0", category |-> "custom"]

RegistryConfigs == {Null, [k |-> "config"]}

\* new NodeClass(config); config is undefined when no argument is passed
Construct(nodeClass, cfg) ==
    IF nodeClass = "NeedsConfigNode" /\ cfg \in {Null, Undefined}
    THEN [threw |-> TRUE, error |-> TypeError]
    ELSE [threw |-> FALSE, value |-> [class |-> nodeClass, config |-> cfg]]

\* Map.prototype.has / get / set on a Map kept as its entries in insertion
\* order; set keeps the place of a key it already holds
MapHas(m, key) == \E i \in 1 .. Len(m) : m[i].key = key

MapGet(m, key) ==
    IF MapHas(m, key)
    THEN (CHOOSE e \in {m[i] : i \in 1 .. Len(m)} : e.key = key).value
    ELSE Undefined

MapSet(m, key, value) ==
    IF MapHas(m, key)
    THEN [i \in 1 .. Len(m) |->
            IF m[i].key = key THEN [key |-> key, value |-> value] ELSE m[i]]
    ELSE Append(m, [key |-> key, value |-> value])

\* Array.from(map.keys())
MapKeys(m) == [i \in 1 .. Len(m) |-> m[i].key]

\* a register that keeps the first class registered for a type
register_keepsFirst(m, nodeClass, type) ==
    IF MapHas(m, type) THEN m ELSE MapSet(m, type, Str(nodeClass))

\* NodeRegistry.register: the Map afterwards
register(m, nodeClass, type) == MapSet(m, type, Str(nodeClass))

NotFoundError(type) == [msg |-> "Node type '<type>' not found", type |-> type]

\* a create that answers a miss with null
create_nullOnMiss(m, type, cfg) ==
    LET NodeClass == MapGet(m, type)
    IN IF ~Truthy(NodeClass)
       THEN [nodes |-> m, threw |-> FALSE, value |-> Null]
       ELSE [nodes |-> m] @@ Construct(NodeClass.s, cfg)

\* NodeRegistry.create: the Map afterwards and what the call returned or threw
create(m, type, cfg) ==
    LET NodeClass == MapGet(m, type)
    IN IF ~Truthy(NodeClass)
       THEN [nodes |-> m, threw |-> TRUE, error |-> NotFoundError(type)]
       ELSE [nodes |-> m] @@ Construct(NodeClass.s, cfg)

\* NodeRegistry.getAvailableTypes
getAvailableTypes(m) == MapKeys(m)

\* a getAllNodes that hands out this.nodes itself
getAllNodes_returnsOwnMap(m) == [ownMap |-> TRUE, entries |-> m]

\* NodeRegistry.getAllNodes: new Map(this.nodes), a Map object of its own
\* with the entries of this.nodes
getAllNodes(m) == [ownMap |-> FALSE, entries |-> m]

\* NodeRegistry.existsByTypeAndVersion: the version is not looked at
existsByTypeAndVersion(m, type, version) == MapHas(m, type)

\* a NodeMetadata object
Descriptor(type, name, version, category, inputs, outputs) ==
    [type |-> type, name |-> name, version |-> version,
     category |-> category, inputs |-> inputs, outputs |-> outputs]

\* typeof NodeClass.getMetadata === "function": a static method is found on
\* the class or on a superclass, and BaseNode declares one
HasGetMetadata(nodeClass) ==
    \/ ClassDeclaration(nodeClass).ownGetMetadata
    \/ ClassDeclaration(nodeClass).extendsBaseNode

\* NodeClass.getMetadata(): the class's own descriptor, else the inherited
\* BaseNode.getMetadata, which throws
GetMetadata(nodeClass) ==
    LET d == ClassDeclaration(nodeClass)
    IN IF d.ownGetMetadata
       THEN [threw |-> FALSE,
             value |-> Descriptor(d.type, d.shortName, d.version, d.category,
                                  <<"declared">>, <<"declared">>)]
       ELSE [threw |-> TRUE,
             error |-> [msg |-> "Static getMetadata() must be implemented"]]

\* a || b on strings
OrElse(a, b) == IF a # "" THEN a ELSE b

\* a getNodeMetadata whose catch blocks rethrow
getNodeMetadata_rethrows(m, type) ==
    LET NodeClass == MapGet(m, type)
    IN IF ~Truthy(NodeClass) THEN [threw |-> FALSE, value |-> Null]
       ELSE IF HasGetMetadata(NodeClass.s) THEN GetMetadata(NodeClass.s)
       ELSE Construct(NodeClass.s, Undefined)

\* NodeRegistry.getNodeMetadata: what the call returns or throws
getNodeMetadata(m, type) ==
    LET NodeClass == MapGet(m, type)
    IN IF ~Truthy(NodeClass) THEN [threw |-> FALSE, value |-> Null]
       ELSE IF HasGetMetadata(NodeClass.s)
       THEN IF GetMetadata(NodeClass.s).threw
            THEN [threw |-> FALSE, value |-> Null]
            ELSE GetMetadata(NodeClass.s)
       ELSE LET instance == Construct(NodeClass.s, Undefined)
                d == ClassDeclaration(NodeClass.s)
            IN IF instance.threw THEN [threw |-> FALSE, value |-> Null]
               ELSE [threw |-> FALSE,
                     value |-> Descriptor(OrElse(d.type, type), d.shortName,
                                          OrElse(d.version, "1.0.0"),
                                          OrElse(d.category, "transformation"),
                                          <<>>, <<>>)]

\* the loop of getAllNodesMetadata from entry i of this.nodes on
RECURSIVE AllMetadataFrom(_, _, _)
AllMetadataFrom(m, i, metadata) ==
    IF i > Len(m) THEN [threw |-> FALSE, value |-> metadata]
    ELSE LET nodeMetadata == getNodeMetadata(m, m[i].key)
         IN IF nodeMetadata.threw THEN nodeMetadata
            ELSE AllMetadataFrom(m, i + 1,
                    IF Truthy(nodeMetadata.value)
                    THEN MapSet(metadata, m[i].key, nodeMetadata.value)
                    ELSE metadata)

\* NodeRegistry.getAllNodesMetadata
getAllNodesMetadata(m) == AllMetadataFrom(m, 1, <<>>)

Register(nodeClass, type) ==
    /\ nodes' = register(nodes, nodeClass, type)
    /\ regResult' = [op |-> "register", type |-> type,
                     nodeClass |-> nodeClass]
    /\ UNCHANGED <<execVars, cvVars, mq>>

Create(type, cfg) ==
    /\ nodes' = create(nodes, type, cfg).nodes
    /\ regResult' = [op |-> "create", type |-> type,
                     ret |-> [f \in DOMAIN create(nodes, type, cfg) \ {"nodes"}
                                |-> create(nodes, type, cfg)[f]]]
    /\ UNCHANGED <<execVars, cvVars, mq>>

GetAvailableTypes ==
    /\ regResult' = [op |-> "getAvailableTypes",
                     ret |-> getAvailableTypes(nodes)]
    /\ UNCHANGED <<nodes, execVars, cvVars, mq>>

GetAllNodes ==
    /\ regResult' = [op |-> "getAllNodes", ret |-> getAllNodes(nodes)]
    /\ UNCHANGED <<nodes, execVars, cvVars, mq>>

\* the caller calls clear() on the Map getAllNodes returned: the Map object
\* loses its entries, and this.nodes with it when it is that object
ClearReturnedMap ==
    /\ regResult.op = "getAllNodes"
    /\ regResult.ret.entries # <<>>
    /\ regResult' = [regResult EXCEPT !.ret.entries = <<>>]
    /\ nodes' = IF regResult.ret.ownMap THEN <<>> ELSE nodes
    /\ UNCHANGED <<execVars, cvVars, mq>>

ExistsByTypeAndVersion(type, version) ==
    /\ regResult' = [op |-> "existsByTypeAndVersion", type |-> type,
                     ret |-> existsByTypeAndVersion(nodes, type, version)]
    /\ UNCHANGED <<nodes, execVars, cvVars, mq>>

GetNodeMetadata(type) ==
    /\ regResult' = [op |-> "getNodeMetadata", type |-> type,
                     ret |-> getNodeMetadata(nodes, type)]
    /\ UNCHANGED <<nodes, execVars, cvVars, mq>>

GetAllNodesMetadata ==
    /\ regResult' = [op |-> "getAllNodesMetadata",
                     ret |-> getAllNodesMetadata(nodes)]
    /\ UNCHANGED <<nodes, execVars, cvVars, mq>>

\* ------------------------------------------------------------ RabbitMQClient
\* config.maxReconnectAttempts when the caller gives none
DefaultMaxReconnectAttempts == 10

\* the client after its constructor, with config.maxReconnectAttempts = max.
\* connection and channel are 0 for null, else the number of the broker
\* connection they are (the channel: that of its one channel). Beside the
\* fields: the reconnect timers pending; the connections amqp.connect has
\* opened, by number, each with whether it is open, the state of its
\* channel and whether the client's 'close' handler is registered on it; the
\* connect() invocations past the guard, each at its await; the disconnect()
\* invocation at its await; the consumer registered by consume() and the
\* messages delivered to it; the events the last step emitted; and what
\* isConnected() was when the last step resolved a connect() promise
NewRabbitMQClient(max) ==
    [connection |-> 0, channel |-> 0, reconnectAttempts |-> 0,
     isConnecting |-> FALSE, maxReconnectAttempts |-> max,
     timers |-> 0, conns |-> <<>>, attempts |-> <<>>,
     disc |-> [pc |-> "idle"], down |-> FALSE,
     consumer |-> [ch |-> 0], msgs |-> <<>>,
     emitted |-> <<>>, resolved |-> "none"]

Range(q) == {q[i] : i \in DOMAIN q}

\* a sequence without its i-th element
Remove(q, i) ==
    [j \in 1 .. Len(q) - 1 |-> IF j < i THEN q[j] ELSE q[j + 1]]

\* a step begins: nothing emitted, no promise resolved yet
Step(m) == [m EXCEPT !.emitted = <<>>, !.resolved = "none"]

emit(m, event) == [m EXCEPT !.emitted = Append(@, event)]

\* RabbitMQClient.isConnected
isConnected(m) == m.connection # 0 /\ m.channel # 0

\* a connect() promise resolves: what an awaiting caller finds
ConnectResolves(m) ==
    [m EXCEPT !.resolved = IF isConnected(m) THEN "connected"
                           ELSE "notConnected"]

\* a scheduleReconnect that gives up only above the maximum
scheduleReconnect_offByOne(m) ==
    IF m.reconnectAttempts > m.maxReconnectAttempts
    THEN emit(m, "maxReconnectAttemptsReached")
    ELSE [m EXCEPT !.reconnectAttempts = @ + 1, !.timers = @ + 1]

\* RabbitMQClient.scheduleReconnect
scheduleReconnect(m) ==
    IF m.reconnectAttempts >= m.maxReconnectAttempts
    THEN emit(m, "maxReconnectAttemptsReached")
    ELSE [m EXCEPT !.reconnectAttempts = @ + 1, !.timers = @ + 1]

\* RabbitMQClient.connect up to its first await: the guard, and past it
\* isConnecting = true and the call of amqp.connect
connect(m) ==
    IF m.isConnecting \/ m.connection # 0
    THEN ConnectResolves(m)
    ELSE [m EXCEPT !.isConnecting = TRUE,
                   !.attempts = Append(@, [pc |-> "amqp.connect", conn |-> 0])]

\* the catch block of connect, for the invocation attempts[i]
connectCatch(m, i) ==
    ConnectResolves(
        scheduleReconnect(
            emit([m EXCEPT !.isConnecting = FALSE,
                           !.attempts = Remove(@, i)], "error")))

\* RabbitMQClient.handleConnectionClose
handleConnectionClose(m) ==
    scheduleReconnect(
        emit([m EXCEPT !.connection = 0, !.channel = 0], "disconnected"))

\* broker connection n closes, with its channel; amqplib then emits 'close'
\* on it, which runs the client's handler when one is registered on it
Closed(m, n) ==
    LET m1 == [m EXCEPT !.conns[n].open = FALSE,
                        !.conns[n].channel =
                            IF @ = "open" THEN "closed" ELSE @]
    IN IF m.conns[n].onClose THEN handleConnectionClose(m1) ELSE m1

\* the channel object c can send: it and its connection are open
ChannelOpen(m, c) ==
    c # 0 /\ m.conns[c].open /\ m.conns[c].channel = "open"

\* the caller calls connect()
MqConnect ==
    /\ mq' = connect([Step(mq) EXCEPT !.down = FALSE])
    /\ UNCHANGED <<execVars, cvVars, regVars>>

\* a reconnect timer fires: () => this.connect()
MqReconnectTimerFired ==
    /\ mq.timers > 0
    /\ mq' = connect([Step(mq) EXCEPT !.timers = @ - 1])
    /\ UNCHANGED <<execVars, cvVars, regVars>>

\* amqp.connect resolves with a new connection, on which connect() calls
\* createChannel
MqAmqpConnectResolved(i) ==
    /\ mq.attempts[i].pc = "amqp.connect"
    /\ Len(mq.conns) < MaxConns
    /\ mq' = [Step(mq) EXCEPT
                !.conns = Append(@, [open |-> TRUE, channel |-> "none",
                                     onClose |-> FALSE]),
                !.connection = Len(mq.conns) + 1,
                !.attempts[i] = [pc |-> "createChannel",
                                 conn |-> Len(mq.conns) + 1]]
    /\ UNCHANGED <<execVars, cvVars, regVars>>

\* createChannel resolves with the channel, on which connect() calls prefetch
MqCreateChannelResolved(i) ==
    /\ mq.attempts[i].pc = "createChannel"
    /\ mq.conns[mq.attempts[i].conn].open
    /\ mq' = [Step(mq) EXCEPT
                !.conns[mq.attempts[i].conn].channel = "open",
                !.channel = mq.attempts[i].conn,
                !.attempts[i].pc = "prefetch"]
    /\ UNCHANGED <<execVars, cvVars, regVars>>

\* prefetch resolves: the handlers are registered on this.connection, which
\* throws when that is null by now; else the attempt has succeeded
MqPrefetchResolved(i) ==
    /\ mq.attempts[i].pc = "prefetch"
    /\ ChannelOpen(mq, mq.attempts[i].conn)
    /\ mq' = IF mq.connection = 0 THEN connectCatch(Step(mq), i)
             ELSE ConnectResolves(
                    emit([Step(mq) EXCEPT
                            !.conns[mq.connection].onClose = TRUE,
                            !.reconnectAttempts = 0,
                            !.isConnecting = FALSE,
                            !.attempts = Remove(@, i)], "connected"))
    /\ UNCHANGED <<execVars, cvVars, regVars>>

\* amqp.connect, createChannel or prefetch rejects
MqAttemptRejected(i) ==
    /\ i \in DOMAIN mq.attempts
    /\ mq' = connectCatch(Step(mq), i)
    /\ UNCHANGED <<execVars, cvVars, regVars>>

\* the broker or the network closes connection n
MqConnectionLost(n) ==
    /\ n \in DOMAIN mq.conns
    /\ mq.conns[n].open
    /\ mq' = Closed(Step(mq), n)
    /\ UNCHANGED <<execVars, cvVars, regVars>>

\* the caller calls disconnect() on a client with no disconnect() under
\* way, up to its first await; connected records whether connect() had
\* succeeded and the client was connected
MqDisconnect ==
    /\ mq.disc.pc = "idle"
    /\ LET connected == /\ isConnected(mq)
                        /\ mq.attempts = <<>>
                        /\ mq.conns[mq.connection].onClose
                        /\ ChannelOpen(mq, mq.channel)
           m == Step(mq)
       IN mq' = IF mq.channel # 0
                THEN [m EXCEPT !.disc = [pc |-> "channel.close",
                                         on |-> mq.channel,
                                         connected |-> connected]]
                ELSE IF mq.connection # 0
                THEN [m EXCEPT !.disc = [pc |-> "connection.close",
                                         on |-> mq.connection,
                                         connected |-> connected]]
                ELSE m
    /\ UNCHANGED <<execVars, cvVars, regVars>>

\* channel.close() settles: it rejects on a channel that is closed already,
\* and disconnect() with it; else this.channel = null and, when
\* this.connection is set, the call of connection.close()
MqChannelCloseSettled ==
    /\ mq.disc.pc = "channel.close"
    /\ LET m == Step(mq)
       IN mq' = IF ~ChannelOpen(mq, mq.disc.on)
                THEN [m EXCEPT !.disc = [pc |-> "idle"]]
                ELSE LET m1 == [m EXCEPT !.conns[mq.disc.on].channel = "closed",
                                         !.channel = 0]
                     IN IF mq.connection # 0
                        THEN [m1 EXCEPT !.disc.pc = "connection.close",
                                        !.disc.on = mq.connection]
                        ELSE [m1 EXCEPT !.disc = [pc |-> "idle"],
                                        !.down = mq.disc.connected]
    /\ UNCHANGED <<execVars, cvVars, regVars>>

\* connection.close() settles: it rejects on a connection that is closed
\* already, and disconnect() with it; else the connection closes, its
\* 'close' event is emitted, this.connection = null and disconnect() returns
MqConnectionCloseSettled ==
    /\ mq.disc.pc = "connection.close"
    /\ LET m == Step(mq)
       IN mq' = IF ~mq.conns[mq.disc.on].open
                THEN [m EXCEPT !.disc = [pc |-> "idle"]]
                ELSE [Closed(m, mq.disc.on) EXCEPT
                        !.connection = 0,
                        !.disc = [pc |-> "idle"],
                        !.down = mq.disc.connected]
    /\ UNCHANGED <<execVars, cvVars, regVars>>

\* the caller calls consume(queue, handler, {noAck}) on a client without a
\* consumer, and channel.consume registers the callback on this.channel;
\* without a channel consume throws and nothing changes
MqConsume(noAck) ==
    /\ mq.consumer.ch = 0
    /\ mq' = IF ChannelOpen(mq, mq.channel)
             THEN [Step(mq) EXCEPT
                     !.consumer = [ch |-> mq.channel, noAck |-> noAck]]
             ELSE Step(mq)
    /\ UNCHANGED <<execVars, cvVars, regVars>>

\* this.channel!.ack(msg) or this.channel!.nack(msg, false, false) for
\* message j: on a null channel the call throws a TypeError and on a closed
\* one the channel object throws; else the frame is sent
Send(m, j, frame) ==
    IF ChannelOpen(m, m.channel)
    THEN [threw |-> FALSE, mq |-> [m EXCEPT !.msgs[j][frame] = @ + 1]]
    ELSE [threw |-> TRUE, mq |-> m]

\* the catch block of the consume callback for message j; a nack that throws
\* ends the callback before messageError is emitted
consumeCatch(m, j) ==
    LET m1 == [m EXCEPT !.msgs[j].pc = "done"]
    IN IF m.consumer.noAck THEN emit(m1, "messageError")
       ELSE IF Send(m1, j, "nacks").threw THEN m1
       ELSE emit(Send(m1, j, "nacks").mq, "messageError")

\* the channel of the consumer delivers a message to the callback: the
\* content is parsed and the handler called, or the parse throws
MqDeliver(parses) ==
    /\ ChannelOpen(mq, mq.consumer.ch)
    /\ Len(mq.msgs) < MaxMessages
    /\ LET j == Len(mq.msgs) + 1
           m == [Step(mq) EXCEPT
                   !.msgs = Append(@, [pc |-> "handler", acks |-> 0,
                                       nacks |-> 0,
                                       outcome |-> IF parses THEN "pending"
                                                   ELSE "unparsable"])]
       IN mq' = IF parses THEN m ELSE consumeCatch(m, j)
    /\ UNCHANGED <<execVars, cvVars, regVars>>

\* the handler's promise for message j resolves: the ack, and the catch block
\* when the ack throws
MqHandlerResolved(j) ==
    /\ j \in DOMAIN mq.msgs
    /\ mq.msgs[j].pc = "handler"
    /\ LET m == [Step(mq) EXCEPT !.msgs[j].pc = "done",
                                 !.msgs[j].outcome = "resolved"]
       IN mq' = IF mq.consumer.noAck THEN m
                ELSE IF Send(m, j, "acks").threw THEN consumeCatch(m, j)
                ELSE Send(m, j, "acks").mq
    /\ UNCHANGED <<execVars, cvVars, regVars>>

\* the handler's promise for message j rejects
MqHandlerRejected(j) ==
    /\ j \in DOMAIN mq.msgs
    /\ mq.msgs[j].pc = "handler"
    /\ mq' = consumeCatch([Step(mq) EXCEPT !.msgs[j].outcome = "rejected"], j)
    /\ UNCHANGED <<execVars, cvVars, regVars>>

\* ------------------------------------------------------------------ validate
\* the inputs given to PostgreSQLQueryNode.validate: null, undefined, and
\* objects whose connectionString and query are absent, empty or set and
\* whose parameters is absent, null, an array, a string or a number
PgValidateInputs ==
    {Null, Undefined} \cup
    [connectionString : {Undefined, Str(""), Str("postgresql://")},
     query : {Undefined, Str(""), Str("SELECT 1")},
     parameters : {Undefined, Null, Arr(<<>>), Arr(<<Num(1)>>), Str("1"),
                   Num(1)}]

\* PostgreSQLQueryNode.validate
PgValidate(input) ==
    /\ BaseNodeValidate(input)
    /\ Truthy(input.connectionString)
    /\ Truthy(input.query)

\* validate(input) for the input the caller holds ready in call[c].input
PgValidateGiven(c) ==
    /\ nodeType = "postgresql-query"
    /\ MayStart(c)
    /\ \A d \in Calls : call[d].pc = "idle"
    /\ call' = [call EXCEPT ![c].pc = "done",
                            ![c].result = [k |-> "boolean",
                                           value |-> PgValidate(call[c].input)]]
    /\ UNCHANGED <<clients, client, nodeType, config, cvVars, regVars, mq>>

\* ------------------------------------------------------------ specifications
ConfigsOf(t) ==
    CASE t = "mongodb-operations" -> MongoConfigs
      [] t = "postgresql-query" -> PgConfigs
      [] OTHER -> {Null}

\* a node instance of one of the built-in types has been constructed with a
\* config and no execute call has started; the validator has its arguments;
\* the registry is new
InitOf(types, pins) ==
    /\ nodeType \in types
    /\ config \in ConfigsOf(nodeType)
    /\ client = NoClient
    /\ clients = <<>>
    /\ call = [c \in Calls |-> IdleCall]
    /\ cvSource \in pins
    /\ cvTarget \in pins
    /\ cvResult = NoCall
    /\ nodes = <<>>
    /\ regResult = NoCall
    /\ mq = NewRabbitMQClient(DefaultMaxReconnectAttempts)

ExecStep(c) ==
    \/ MongoConnectResolved(c)
    \/ MongoConnectRejected(c)
    \/ MongoBackoffElapsed(c)
    \/ MongoOperationResolved(c)
    \/ MongoOperationRejected(c)
    \/ MongoTimeoutFired(c)
    \/ MongoCloseSettled(c)
    \/ PgConnectResolved(c)
    \/ PgConnectRejected(c)
    \/ PgQueryResolved(c)
    \/ PgQueryRejected(c)
    \/ PgTimeoutElapsed(c)
    \/ PgEndSettled(c)

NoPins == {[type |-> "data-filter", pin |-> "result", schema |-> Null]}

\* execute calls of one node instance, overlapping as the caller pleases
Init == InitOf(NodeTypes, NoPins)

Next ==
    \E c \in Calls :
        \/ MongoExecute(c)
        \/ PgExecute(c)
        \/ FilterExecute(c)
        \/ MapperExecute(c)
        \/ ExecStep(c)

Spec == Init /\ [][Next]_vars

\* execute calls of one database node instance, each awaited before the next
InitSeq == InitOf({"mongodb-operations", "postgresql-query"}, NoPins)

NextSeq ==
    \E c \in Calls :
        \/ ~InFlight /\ MongoExecute(c)
        \/ ~InFlight /\ PgExecute(c)
        \/ ExecStep(c)

SpecSeq == InitSeq /\ [][NextSeq]_vars

\* execute calls of one instance of each built-in node type: those of a
\* database node each awaited before the next, and one of a transformation
\* node, whose execute keeps nothing between calls
NextNodes ==
    \E c \in Calls :
        \/ ~InFlight /\ MongoExecute(c)
        \/ ~InFlight /\ PgExecute(c)
        \/ (\A d \in Calls : call[d].pc = "idle") /\ FilterExecute(c)
        \/ (\A d \in Calls : call[d].pc = "idle") /\ MapperExecute(c)
        \/ ExecStep(c)

SpecNodes == Init /\ [][NextNodes]_vars

\* one execute call of a DataFilterNode on each input
InitFilter ==
    /\ nodeType = "data-filter"
    /\ config \in ConfigsOf(nodeType)
    /\ client = NoClient
    /\ clients = <<>>
    /\ \E input \in DataFilterInputs :
          call = [c \in Calls |->
                    IF c = 1 THEN [IdleCall EXCEPT !.input = input]
                    ELSE IdleCall]
    /\ cvSource \in NoPins
    /\ cvTarget \in NoPins
    /\ cvResult = NoCall
    /\ nodes = <<>>
    /\ regResult = NoCall
    /\ mq = NewRabbitMQClient(DefaultMaxReconnectAttempts)

NextFilter ==
    \E c \in Calls : FilterValidateGiven(c) \/ FilterExecuteGiven(c)

SpecFilter == InitFilter /\ [][NextFilter]_vars

\* one execute call of a FieldMapperNode on each input
InitMapper ==
    /\ nodeType = "field-mapper"
    /\ config \in ConfigsOf(nodeType)
    /\ client = NoClient
    /\ clients = <<>>
    /\ \E input \in FieldMapperInputs :
          call = [c \in Calls |->
                    IF c = 1 THEN [IdleCall EXCEPT !.input = input]
                    ELSE IdleCall]
    /\ cvSource \in NoPins
    /\ cvTarget \in NoPins
    /\ cvResult = NoCall
    /\ nodes = <<>>
    /\ regResult = NoCall
    /\ mq = NewRabbitMQClient(DefaultMaxReconnectAttempts)

NextMapper ==
    \E c \in Calls : MapperValidateGiven(c) \/ MapperExecuteGiven(c)

SpecMapper == InitMapper /\ [][NextMapper]_vars

\* one validate call of a PostgreSQLQueryNode on each input
InitValidate ==
    /\ nodeType = "postgresql-query"
    /\ config \in ConfigsOf(nodeType)
    /\ client = NoClient
    /\ clients = <<>>
    /\ \E input \in PgValidateInputs :
          call = [c \in Calls |->
                    IF c = 1 THEN [IdleCall EXCEPT !.input = input]
                    ELSE IdleCall]
    /\ cvSource \in NoPins
    /\ cvTarget \in NoPins
    /\ cvResult = NoCall
    /\ nodes = <<>>
    /\ regResult = NoCall
    /\ mq = NewRabbitMQClient(DefaultMaxReconnectAttempts)

NextValidate == \E c \in Calls : PgValidateGiven(c)

SpecValidate == InitValidate /\ [][NextValidate]_vars

\* the CompatibilityValidator applied to every pair of pins
InitCompat == InitOf({"data-filter"}, Pins)

NextCompat == CvCheck \/ CvValidateCompatibility

SpecCompat == InitCompat /\ [][NextCompat]_vars

\* a NodeRegistry under any sequence of its operations
InitRegistry == InitOf({"data-filter"}, NoPins)

NextRegistry ==
    \/ \E nodeClass \in NodeClasses, type \in RegistryTypes :
            Register(nodeClass, type)
    \/ \E type \in RegistryTypes, cfg \in RegistryConfigs : Create(type, cfg)
    \/ GetAvailableTypes
    \/ GetAllNodes
    \/ ClearReturnedMap
    \/ \E type \in RegistryTypes, version \in {"1.0.0", "2.0.0"} :
            ExistsByTypeAndVersion(type, version)
    \/ \E type \in RegistryTypes : GetNodeMetadata(type)
    \/ GetAllNodesMetadata

SpecRegistry == InitRegistry /\ [][NextRegistry]_vars
\* a RabbitMQClient under any calls of connect and disconnect, any answers
\* of the broker and any order of its timers and promises
InitRabbit ==
    /\ nodeType = "data-filter"
    /\ config \in ConfigsOf(nodeType)
    /\ client = NoClient
    /\ clients = <<>>
    /\ call = [c \in Calls |-> IdleCall]
    /\ cvSource \in NoPins
    /\ cvTarget \in NoPins
    /\ cvResult = NoCall
    /\ nodes = <<>>
    /\ regResult = NoCall
    /\ mq \in {NewRabbitMQClient(max) : max \in 0 .. MaxReconnect}

NextRabbit ==
    \/ MqConnect
    \/ MqReconnectTimerFired
    \/ \E i \in DOMAIN mq.attempts :
          \/ MqAmqpConnectResolved(i)
          \/ MqCreateChannelResolved(i)
          \/ MqPrefetchResolved(i)
          \/ MqAttemptRejected(i)
    \/ \E n \in DOMAIN mq.conns : MqConnectionLost(n)
    \/ MqDisconnect
    \/ MqChannelCloseSettled
    \/ MqConnectionCloseSettled

SpecRabbit == InitRabbit /\ [][NextRabbit]_vars

\* the same with a consumer and the messages delivered to it
NextConsume ==
    \/ NextRabbit
    \/ \E noAck \in BOOLEAN : MqConsume(noAck)
    \/ \E parses \in BOOLEAN : MqDeliver(parses)
    \/ \E j \in DOMAIN mq.msgs : MqHandlerResolved(j) \/ MqHandlerRejected(j)

SpecConsume == InitRabbit /\ [][NextConsume]_vars
\* ===================================================================== claims
ClientIds == 1 .. Len(clients)

IsMongo == nodeType = "mongodb-operations"
IsPg == nodeType = "postgresql-query"

\* C1: for every built-in node type and every input, also null input and a
\* null config, the promise execute returns never rejects: every call ends
\* with an envelope, and a failure envelope carries an error.
C1_ExecuteNeverRejects ==
    \A c \in Calls :
        call[c].pc = "done" =>
            /\ call[c].result.k = "envelope"
            /\ ~call[c].result.success => "error" \in DOMAIN call[c].result

\* C2: when execute calls on one MongoDBOperationsNode overlap, each call
\* runs its operation on the client it opened itself, closes no client of
\* another call, and has closed its connected client when it returns.
C2_OverlappingCallsIsolated ==
    \A c \in Calls :
        IsMongo =>
            /\ call[c].pc = "op" => clients[call[c].opClient].owner = c
            /\ call[c].pc = "closing" => clients[call[c].closing].owner = c
            /\ call[c].pc = "done" =>
                  \A id \in ClientIds :
                      clients[id].owner = c /\ clients[id].connected
                          => clients[id].closeCalls >= 1

\* C3: for a single execute call of a connection-managing node whose
\* connection was established, close is never invoked twice on the client,
\* and has been invoked exactly once when the call has returned, whichever
\* way it ended (success, downstream failure, timeout).
C3_CloseExactlyOnce ==
    \A id \in ClientIds :
        clients[id].connected =>
            /\ clients[id].closeCalls <= 1
            /\ call[clients[id].owner].pc \in {"done", "forgotten"}
                  => clients[id].closeCalls = 1

\* a call of a mongodb-operations node has returned after its timeout fired,
\* with its connected client closed once, as was the connected client of an
\* earlier call
C3_Witness ==
    /\ IsMongo
    /\ \E c \in Calls, id \in ClientIds :
        /\ call[c].pc = "done" /\ call[c].timedOut
        /\ clients[call[c].opClient].connected
        /\ clients[call[c].opClient].closeCalls = 1
        /\ clients[id].owner # c
        /\ call[clients[id].owner].pc = "forgotten"
        /\ clients[id].connected
        /\ clients[id].closeCalls = 1

\* options.timeout, else config.defaultTimeout, else 30000
C4_ConfiguredTimeout(c) ==
    LET o == call[c].input.options
    IN IF o # Null /\ o.timeout # 0 THEN o.timeout
       ELSE IF config # Null /\ config.defaultTimeout # 0
            THEN config.defaultTimeout
       ELSE 30000

\* C4: when the timeout of a MongoDBOperationsNode call elapses before the
\* operation completes, the call's envelope is the failure 'Operation timed
\* out after <timeout>ms' with the configured timeout, and when the call has
\* returned the client was closed and this.client is null.
C4_TimeoutEnvelope ==
    \A c \in Calls :
        IsMongo /\ call[c].timedOut =>
            /\ call[c].result =
                  Failure([msg |-> "Operation timed out after <timeout>ms",
                           timeout |-> C4_ConfiguredTimeout(c)])
            /\ call[c].pc = "done" =>
                  /\ clients[call[c].opClient].closeCalls >= 1
                  /\ ~InFlight => client = NoClient

\* a second call, which takes its timeout from config.defaultTimeout, has
\* returned after its timer fired
C4_Witness ==
    /\ IsMongo
    /\ call[2].pc = "done"
    /\ call[2].timedOut
    /\ call[2].timeout = 10000
    /\ call[2].result.success = FALSE

\* C5: a PostgreSQLQueryNode query that has not completed when the configured
\* timeout has passed makes execute return a failure envelope with the
\* client closed: execute is not still waiting for the query.
C5_PgQueryTimesOut ==
    \A c \in Calls :
        IsPg /\ call[c].timedOut =>
            /\ call[c].pc \in {"closing", "done"}
            /\ call[c].result.k = "envelope"
            /\ ~call[c].result.success
            /\ clients[call[c].opClient].closeCalls >= 1

\* C6: every client a MongoDBOperationsNode call created, also by a
\* connection attempt that failed and was retried, has been closed when the
\* call has returned.
C6_EveryClientClosed ==
    \A c \in Calls :
        IsMongo /\ call[c].pc = "done" =>
            \A id \in ClientIds :
                clients[id].owner = c => clients[id].closeCalls >= 1

\* C7: for every pair of type strings the table does not declare, also names
\* of inherited object properties, check returns exactly
\* {level: 'none', valid: false}, a level of the enumeration.
C7_UndeclaredIsNone ==
    cvResult.op = "check" /\ ~Declared(cvSource.type, cvTarget.type) =>
        /\ cvResult.ret = [level |-> Str("none"), valid |-> FALSE]
        /\ cvResult.ret.level \in CompatibilityLevels

HasWarning(ret) ==
    \E i \in 1 .. Len(ret.issues) : ret.issues[i].severity = "warning"

\* C8: validateCompatibility returns compatible = true exactly when the level
\* check returns for the two types is not 'none', whatever the schemas are:
\* no choice of schemas changes compatible.
C8_CompatibleIffLevelNotNone ==
    cvResult.op = "validateCompatibility" =>
        /\ cvResult.ret.compatible =
              (check(cvSource.type, cvTarget.type).level # Str("none"))
        /\ \A s1, s2 \in Schemas :
              validateCompatibility([cvSource EXCEPT !.schema = s1],
                                    [cvTarget EXCEPT !.schema = s2]).compatible
                  = cvResult.ret.compatible

\* a declared pair whose schemas disagree: one warning, still compatible
C8_Witness ==
    /\ cvResult.op = "validateCompatibility"
    /\ Declared(cvSource.type, cvTarget.type)
    /\ cvSource.schema # Null /\ cvSource.schema.type = Str("array")
    /\ cvTarget.schema # Null /\ cvTarget.schema.type = Str("object")
    /\ cvResult.ret.compatible
    /\ HasWarning(cvResult.ret)

\* C9: validateCompatibility emits a warning exactly when both pins carry a
\* schema that has a type field, neither type is 'any', and the types
\* differ; with a schema absent or without a type field there is no warning.
C9_WarningIffTypedMismatch ==
    cvResult.op = "validateCompatibility" =>
        (HasWarning(cvResult.ret) <=>
            /\ cvSource.schema # Null
            /\ cvTarget.schema # Null
            /\ cvSource.schema.type # Undefined
            /\ cvTarget.schema.type # Undefined
            /\ cvSource.schema.type # Str("any")
            /\ cvTarget.schema.type # Str("any")
            /\ cvSource.schema.type # cvTarget.schema.type)

\* C10: in every registry state, create(t, cfg) for a type t that is not
\* registered throws "Node type 't' not found", returns no instance, and
\* leaves the registry as it was, so getAvailableTypes() still lacks t.
C10_CreateUnregisteredThrows ==
    [][\A t \in RegistryTypes, cfg \in RegistryConfigs :
          Create(t, cfg) /\ ~MapHas(nodes, t) =>
              /\ regResult'.ret =
                    [threw |-> TRUE,
                     error |-> [msg |-> "Node type '<type>' not found",
                                type |-> t]]
              /\ nodes' = nodes
              /\ \A i \in 1 .. Len(getAvailableTypes(nodes')) :
                    getAvailableTypes(nodes')[i] # t]_vars

\* create has just thrown for a type missing from a registry that holds
\* other types
C10_Witness ==
    /\ regResult.op = "create"
    /\ Len(nodes) > 0
    /\ ~MapHas(nodes, regResult.type)
    /\ regResult.ret.threw
    /\ regResult.ret.error.type = regResult.type

KeySet(m) == {m[i].key : i \in 1 .. Len(m)}

\* C11: after any sequence of register calls getAvailableTypes() holds each
\* registered type exactly once and nothing else, and create(t, cfg)
\* constructs an instance of the class of the latest register call for t:
\* every register call adds its type to the types listed (once), leaves the
\* class of every other type as it was, and makes create use its class.
C11_LastRegistrationWins ==
    [][\A nodeClass \in NodeClasses, type \in RegistryTypes :
          Register(nodeClass, type) =>
              LET types == getAvailableTypes(nodes')
              IN /\ {types[i] : i \in 1 .. Len(types)}
                        = KeySet(nodes) \cup {type}
                 /\ \A i, j \in 1 .. Len(types) : types[i] = types[j] => i = j
                 /\ \A cfg \in RegistryConfigs :
                        LET r == create(nodes', type, cfg)
                        IN /\ r.threw = Construct(nodeClass, cfg).threw
                           /\ ~r.threw => r.value.class = nodeClass
                 /\ \A t \in KeySet(nodes) \ {type} :
                        MapGet(nodes', t) = MapGet(nodes, t)]_vars

\* a type registered first has just been registered again while a type
\* registered after it is listed behind it
C11_Witness ==
    /\ regResult.op = "register"
    /\ Len(nodes) = 2
    /\ nodes[1].key = regResult.type
    /\ nodes[1].value = Str(regResult.nodeClass)

\* C12: for a registered class that defines no static getMetadata of its
\* own (such as a class that extends BaseNode without overriding it) and
\* whose constructor succeeds without arguments, getNodeMetadata(type)
\* returns a synthesized descriptor with the instance's type, version and
\* category and empty inputs and outputs, not null.
C12_FallbackDescriptor ==
    regResult.op = "getNodeMetadata" /\ MapHas(nodes, regResult.type) =>
        LET nodeClass == MapGet(nodes, regResult.type).s
            d == ClassDeclaration(nodeClass)
        IN ~d.ownGetMetadata /\ ~Construct(nodeClass, Undefined).threw =>
              /\ ~regResult.ret.threw
              /\ regResult.ret.value # Null
              /\ regResult.ret.value.type = d.type
              /\ regResult.ret.value.version = d.version
              /\ regResult.ret.value.category = d.category
              /\ regResult.ret.value.inputs = <<>>
              /\ regResult.ret.value.outputs = <<>>

\* C13: getNodeMetadata(type) throws in no registry state; it returns null
\* for an unregistered type, when the class's static getMetadata throws and
\* when the fallback construction without arguments throws; and
\* getAllNodesMetadata() holds exactly the registered types whose
\* getNodeMetadata is not null, each with that descriptor.
C13_MetadataNeverThrows ==
    /\ \A t \in RegistryTypes :
          LET r == getNodeMetadata(nodes, t)
          IN /\ ~r.threw
             /\ ~MapHas(nodes, t) => r.value = Null
             /\ MapHas(nodes, t) =>
                   LET nodeClass == MapGet(nodes, t).s
                   IN /\ HasGetMetadata(nodeClass)
                         /\ GetMetadata(nodeClass).threw => r.value = Null
                      /\ ~HasGetMetadata(nodeClass)
                         /\ Construct(nodeClass, Undefined).threw
                            => r.value = Null
    /\ regResult.op = "getNodeMetadata" =>
          regResult.ret = getNodeMetadata(nodes, regResult.type)
    /\ regResult.op = "getAllNodesMetadata" =>
          /\ ~regResult.ret.threw
          /\ KeySet(regResult.ret.value) =
                {t \in KeySet(nodes) : getNodeMetadata(nodes, t).value # Null}
          /\ \A t \in KeySet(regResult.ret.value) :
                MapGet(regResult.ret.value, t) = getNodeMetadata(nodes, t).value

\* getAllNodesMetadata has returned a map that holds one registered type and
\* skips two: one whose inherited getMetadata throws and one whose
\* constructor throws without a config
C13_Witness ==
    /\ regResult.op = "getAllNodesMetadata"
    /\ Len(nodes) = 3
    /\ Len(regResult.ret.value) = 1
    /\ \E i, j \in 1 .. 3 :
          /\ nodes[i].value = Str("TextProcessorNode")
          /\ nodes[j].value = Str("NeedsConfigNode")

\* C14: for every built-in node, when execute succeeds with an array-shaped
\* output (filtered; mapped for an array source; result of postgresql-query;
\* result of find and aggregate), metrics.recordsProcessed is the number of
\* elements of the returned array.
C14_RecordsProcessedIsCardinality ==
    \A c \in Calls :
        /\ call[c].pc = "done"
        /\ call[c].result.k = "envelope"
        /\ call[c].result.success
        => LET data == call[c].result.data
               n == call[c].result.recordsProcessed
           IN CASE nodeType = "data-filter" -> n = Len(data.filtered.items)
                [] nodeType = "field-mapper" ->
                      IsArray(data.mapped) => n = Len(data.mapped.items)
                [] nodeType = "postgresql-query" -> n = Len(data.result.items)
                [] nodeType = "mongodb-operations" ->
                      data.operationType \in {"find", "aggregate"}
                          => n = Len(data.result.items)

\* the conditions of a call hold of an item
C15_Satisfies(conditions, item) ==
    \A j \in 1 .. Len(conditions) :
        LET v == IF conditions[j].field \in DOMAIN item
                 THEN item[conditions[j].field] ELSE Undefined
            w == conditions[j].value
        IN CASE conditions[j].operator = "equals" -> v = w
             [] conditions[j].operator = "not_equals" -> v # w
             [] conditions[j].operator = "greater_than" ->
                    v # Undefined /\ v.n > w.n
             [] conditions[j].operator = "less_than" ->
                    v # Undefined /\ v.n < w.n
             [] conditions[j].operator = "contains" ->
                    v # Undefined /\ v.n = w.n
             [] OTHER -> FALSE

\* the subsequence of data, in order, of the items the conditions hold of
RECURSIVE C15_Subsequence(_, _)
C15_Subsequence(data, conditions) ==
    IF data = <<>> THEN <<>>
    ELSE (IF C15_Satisfies(conditions, Head(data)) THEN <<Head(data)>>
          ELSE <<>>) \o C15_Subsequence(Tail(data), conditions)

\* what a finished DataFilterNode call returned, against its input
C15_Filtered ==
    \A c \in Calls :
        /\ nodeType = "data-filter"
        /\ call[c].pc = "done"
        /\ call[c].input # Null
        /\ call[c].input.data # Null
        /\ call[c].input.conditions # Null
        => LET data == call[c].input.data.items
               conditions == call[c].input.conditions.items
               result == call[c].result
           IN /\ conditions = <<>> =>
                    /\ result.success
                    /\ result.data.filtered.items = data
              /\ /\ \A i \in 1 .. Len(data) : data[i] # Null
                 /\ \A j \in 1 .. Len(conditions) : conditions[j] # Null
                 => /\ result.success
                    /\ result.data.filtered.items
                          = C15_Subsequence(data, conditions)
              /\ result.success =>
                    /\ IsArray(result.data.filtered)
                    /\ result.data.filtered_count
                          = Len(result.data.filtered.items)
                    /\ \A i \in 1 .. Len(result.data.filtered.items) :
                          \E k \in 1 .. Len(data) :
                              result.data.filtered.items[i] = data[k]

C16_ConfiguredRetries(c) ==
    LET o == call[c].input.options
    IN IF o # Null /\ o.retries # 0 THEN o.retries
       ELSE IF config # Null /\ config.defaultRetries # 0
            THEN config.defaultRetries
       ELSE 3

\* no client the call created got connected
C16_EveryAttemptFailed(c) ==
    /\ call[c].pc \in {"closing", "done"}
    /\ call[c].result.k = "envelope"
    /\ \A id \in ClientIds : clients[id].owner = c => ~clients[id].connected

\* what holds of a MongoDBOperationsNode call while it connects and after
C16_Attempts ==
    \A c \in Calls :
        IsMongo /\ call[c].pc \in {"connecting", "backoff", "op", "closing",
                                   "done"}
                /\ call[c].result.k # "rejected" =>
            /\ call[c].attempt <= C16_ConfiguredRetries(c)
            /\ call[c].pc = "backoff" =>
                  /\ call[c].attempt < C16_ConfiguredRetries(c)
                  /\ call[c].delay = 2 ^ (call[c].attempt - 1) * 1000
            /\ C16_EveryAttemptFailed(c) =>
                  /\ call[c].attempt = C16_ConfiguredRetries(c)
                  /\ call[c].opCalls = 0
                  /\ call[c].result =
                        Failure(
                          [msg |-> "Failed to connect after <retries> attempts",
                           retries |-> C16_ConfiguredRetries(c)])

C17_OperationIssuedOnce ==
    \A c \in Calls :
        /\ call[c].opCalls <= 1
        /\ call[c].result.k = "envelope"
           /\ ~call[c].result.success
           /\ call[c].result.error = DownstreamError
           => /\ call[c].opCalls = 1
              /\ call[c].pc \in {"closing", "done"}
              /\ \A id \in ClientIds :
                    clients[id].owner = c => id <= call[c].opClient

\* a mongodb-operations call whose second connection attempt succeeded has
\* returned the failure the downstream system reported
C17_Witness ==
    \E c \in Calls :
        /\ IsMongo
        /\ call[c].pc = "done"
        /\ call[c].attempt = 2
        /\ call[c].opCalls = 1
        /\ call[c].result = Failure(DownstreamError)

\* C19: with options.retries = 2 and a connection that fails on every
\* attempt, MongoDBOperationsNode.execute retries twice after the first
\* failed attempt, three attempts in all, before it returns the failure
\* envelope.
C19_RetriesTwiceAfterFirst ==
    \A c \in Calls :
        /\ IsMongo
        /\ call[c].pc = "done"
        /\ call[c].result.k = "envelope"
        /\ call[c].input.options # Null
        /\ call[c].input.options.retries = 2
        /\ C16_EveryAttemptFailed(c)
        => /\ call[c].attempt = 3
           /\ ~call[c].result.success

\* the level the compatibility matrix of the README lists
C18_ReadmeLevel(source, target) ==
    CASE source = "data-filter" /\ target = "postgresql-query" -> "none"
      [] source = "data-filter" /\ target = "data-filter" -> "full"
      [] source = "data-filter" /\ target = "field-mapper" -> "full"
      [] source = "field-mapper" /\ target = "postgresql-query" -> "none"
      [] source = "field-mapper" /\ target = "data-filter" -> "partial"
      [] source = "field-mapper" /\ target = "field-mapper" -> "full"

\* C18: for every source in {data-filter, field-mapper} and every target in
\* {postgresql-query, data-filter, field-mapper}, check returns the level
\* the README compatibility matrix lists for the pair.
C18_CheckMatchesReadme ==
    /\ cvResult.op = "check"
    /\ cvSource.type \in {"data-filter", "field-mapper"}
    /\ cvTarget.type \in {"postgresql-query", "data-filter", "field-mapper"}
    => cvResult.ret.level = Str(C18_ReadmeLevel(cvSource.type, cvTarget.type))

\* C20: PostgreSQLQueryNode.validate(input) returns true exactly when input
\* is neither null nor undefined, connectionString and query are non-empty,
\* and parameters, if present, is an array; it returns false for a
\* parameters that is present and is no array.
C20_ValidateChecksParameters ==
    \A c \in Calls :
        IsPg /\ call[c].pc = "done" /\ call[c].result.k = "boolean" =>
            LET input == call[c].input
            IN call[c].result.value <=>
                  /\ input \notin {Null, Undefined}
                  /\ input.connectionString \notin {Undefined, Str("")}
                  /\ input.query \notin {Undefined, Str("")}
                  /\ input.parameters \notin {Undefined, Null}
                        => IsArray(input.parameters)

\* a 'function' mapping whose body throws when called or does not compile
C21_FunctionFails(m) ==
    /\ m # Null
    /\ m.transformation = "function"
    /\ m.parameters # Null
    /\ m.parameters.functionBody \in {"throw new Error()", "}"}

\* a mapping that assigns its target field
C21_Writes(m) == m.transformation \in {"rename", "function", "constant"}

\* an input in which nothing but a function body can throw
C21_Sound(input) ==
    /\ input # Null
    /\ input.source # Null
    /\ input.mapping # Null
    /\ IsArray(input.source) =>
          \A i \in DOMAIN input.source.items : input.source.items[i] # Null
    /\ \A j \in DOMAIN input.mapping.items : input.mapping.items[j] # Null

C21_SourceData(input) ==
    IF IsArray(input.source) THEN input.source.items ELSE <<input.source>>

C21_Mapped(c) ==
    IF IsArray(call[c].input.source) THEN call[c].result.data.mapped.items
    ELSE <<call[c].result.data.mapped>>

C26_RenameOrConstant(input) ==
    \A j \in DOMAIN input.mapping.items :
        /\ input.mapping.items[j] # Null
        /\ input.mapping.items[j].transformation \in {"rename", "constant"}

\* C26: for DataFilterNode and FieldMapperNode, when validate(input) returned
\* true, execute(input), with mappings restricted to 'rename' and
\* 'constant', returns success = true
C26_ValidInputSucceeds ==
    \A c \in Calls :
        (/\ nodeType \in {"data-filter", "field-mapper"}
         /\ call[c].pc = "done"
         /\ call[c].valid = [k |-> "boolean", value |-> TRUE]
         /\ nodeType = "field-mapper" => C26_RenameOrConstant(call[c].input))
        => /\ call[c].result.k = "envelope"
           /\ call[c].result.success

\* C28: the NodeRegistry's type-to-class mapping is changed only by
\* register: create (returning or throwing), getAvailableTypes, getAllNodes,
\* existsByTypeAndVersion, getNodeMetadata and getAllNodesMetadata leave it
\* as it was, and so does a clear of the Map that getAllNodes returned
C28_OnlyRegisterChangesNodes ==
    [][nodes' # nodes => regResult'.op = "register"]_vars

\* the caller cleared the Map returned by getAllNodes of a registry that
\* holds a class, and the registry still holds it
C28_Witness ==
    /\ nodes # <<>>
    /\ regResult.op = "getAllNodes"
    /\ regResult.ret.entries # nodes

\* C29: every envelope returned by execute of a built-in node has, when
\* success is true, a data and no error, and, when success is false, an
\* error that is a message string and no data
C29_EnvelopeShape ==
    \A c \in Calls :
        (call[c].pc = "done" /\ call[c].result.k = "envelope")
        => IF call[c].result.success
           THEN /\ "data" \in DOMAIN call[c].result
                /\ "error" \notin DOMAIN call[c].result
           ELSE /\ "error" \in DOMAIN call[c].result
                /\ DOMAIN call[c].result.error \subseteq
                      {"msg", "timeout", "retries"}
                /\ "msg" \in DOMAIN call[c].result.error
                /\ "data" \notin DOMAIN call[c].result

\* a call of a MongoDBOperationsNode returned a failure envelope
C29_Witness ==
    \E c \in Calls :
        /\ call[c].pc = "done"
        /\ call[c].result.k = "envelope"
        /\ ~call[c].result.success
        /\ nodeType = "mongodb-operations"

\* C22: when a reconnect timer of the RabbitMQClient fires while the client
\* is not connected, no connection attempt is in flight and no disconnect()
\* is under way, a new attempt is made: connect() calls amqp.connect for a
\* new broker connection
C22_TimerOpensNewConnection ==
    [][(/\ mq'.timers = mq.timers - 1
        /\ ~isConnected(mq)
        /\ mq.attempts = <<>>
        /\ mq.disc.pc = "idle")
       => \E i \in DOMAIN mq'.attempts : mq'.attempts[i].pc = "amqp.connect"
      ]_vars

\* C23: once disconnect() has completed on a connected RabbitMQClient, and
\* until the caller calls connect() again, no reconnect timer is pending, no
\* connection attempt is in flight and the client is not connected
C23_StaysDisconnected ==
    mq.down => /\ mq.timers = 0
               /\ mq.attempts = <<>>
               /\ ~isConnected(mq)

\* C24: whenever a promise returned by RabbitMQClient.connect() resolves,
\* isConnected() is true
C24_ResolvedMeansConnected == mq.resolved # "notConnected"

\* C25: for every message delivered to the consume callback and dealt with,
\* with noAck false exactly one of ack and nack has been issued, the ack
\* when the handler resolved and the nack when the parse or the handler
\* failed; with noAck true neither has been issued
C25_ExactlyOneAckOrNack ==
    \A j \in DOMAIN mq.msgs :
        mq.msgs[j].pc = "done"
        => IF mq.consumer.noAck
           THEN mq.msgs[j].acks = 0 /\ mq.msgs[j].nacks = 0
           ELSE /\ mq.msgs[j].acks + mq.msgs[j].nacks = 1
                /\ mq.msgs[j].outcome = "resolved" => mq.msgs[j].acks = 1
                /\ mq.msgs[j].outcome # "resolved" => mq.msgs[j].nacks = 1

\* a step in which a connection attempt fails or a connection closes under
\* the client's 'close' handler
C27_Failure ==
    \/ Len(mq'.attempts) < Len(mq.attempts) /\ "error" \in Range(mq'.emitted)
    \/ "disconnected" \in Range(mq'.emitted)

====
